---- MODULE Spec2Model ----
(***************************************************************************)
(* State-machine model of the sales analytics core                         *)
(* (src/src/utils/data_processor.py, class DataProcessor) as driven by     *)
(* src/src/app.py main().                                                  *)
(*                                                                         *)
(* Column names of the source and their names here:                        *)
(*   '日付' = date, '商品' = product, '顧客' = customer, '売上' = amount.  *)
(*                                                                         *)
(* Values.  A table cell is a record [tag, n, s]:                          *)
(*   "ts"   a timestamp, n = day number (day 1 is Monday 2024-01-29)       *)
(*   "num"  a number, n = the amount in thousandths of a currency unit     *)
(*   "str"  a string s                                                     *)
(*   "NA"   a missing value (None / NaN / NaT)                             *)
(*   "text" a string that is neither a date nor a number                   *)
(* Floating point sums are modelled exactly, in thousandths.               *)
(***************************************************************************)
EXTENDS Integers, Sequences, FiniteSets, TLC

VARIABLES
    raw,      \* the caller's raw table: [cols, rows]          (app.py: df)
    pc,       \* "start" | "ready" (processor built) | "called" | "failed" |
              \* "main" (showing the tabs) | "aborted" | "done"
    df,       \* DataProcessor.df, the canonical record set
    err,      \* the error the constructor raised, or NoError
    steps,    \* the steps of __init__ that ran, in order
    result,   \* the result bundle of the last analysis call
    tabs,     \* the tabs main() has shown in this run, in order: [tab, ok]
    session_state,  \* st.session_state: key -> value
    returned  \* the last cache operation and what its caller got

vars == <<raw, pc, df, err, steps, result, tabs, session_state, returned>>

(***************************************************************************)
(* Bounds of the model                                                     *)
(***************************************************************************)
MaxRows == 2     \* rows of an arbitrary raw table
MaxSpan == 6     \* days of a one-record-per-day raw table

(***************************************************************************)
(* Cells                                                                   *)
(***************************************************************************)
Cell(t, k, str) == [tag |-> t, n |-> k, s |-> str]
Ts(d)     == Cell("ts", d, "")
Num(k)    == Cell("num", k, "")
Str(str)  == Cell("str", 0, str)
NA        == Cell("NA", 0, "")
Text      == Cell("text", 0, "abc")

Row(d, p, c, a) == [date |-> d, product |-> p, customer |-> c, amount |-> a]

required_columns == {"date", "product", "customer", "amount"}

\* The columns main() and its tabs read besides the required ones:
\* 'カテゴリー', '性別', '地域'.  Only their presence is modelled.
dashboard_columns == {"category", "gender", "region"}

(***************************************************************************)
(* Sequence helpers                                                        *)
(***************************************************************************)
Range(sq) == {sq[i] : i \in DOMAIN sq}

RECURSIVE SelectRows(_, _)
SelectRows(sq, keep) ==
    IF sq = <<>> THEN <<>>
    ELSE IF keep[1] THEN <<Head(sq)>> \o SelectRows(Tail(sq), Tail(keep))
         ELSE SelectRows(Tail(sq), Tail(keep))

RemoveAt(sq, i) == SubSeq(sq, 1, i - 1) \o SubSeq(sq, i + 1, Len(sq))

RECURSIVE SumSeq(_)
SumSeq(sq) == IF sq = <<>> THEN 0 ELSE Head(sq) + SumSeq(Tail(sq))

RECURSIVE SetToSortedSeq(_)
SetToSortedSeq(S) ==
    IF S = {} THEN <<>>
    ELSE LET m == CHOOSE x \in S : \A y \in S : x <= y
         IN  <<m>> \o SetToSortedSeq(S \ {m})

Max(S) == CHOOSE x \in S : \A y \in S : y <= x
Min(S) == CHOOSE x \in S : \A y \in S : x <= y

(***************************************************************************)
(* Raw inputs                                                              *)
(***************************************************************************)
\* Well-formed rows of the arbitrary tables: two days more than thirty days
\* apart with a whole month between them (2024-01-29 and 2024-03-01), two
\* products, two customers, amounts 1000 and 0.
ValidRows ==
    { Row(Ts(1), Str("pA"), Str("c1"), Num(1000000)),
      Row(Ts(1), Str("pB"), Str("c2"), Num(0)),
      Row(Ts(33), Str("pA"), Str("c2"), Num(1000000)),
      Row(Ts(33), Str("pB"), Str("c1"), Num(0)) }

\* Rows with one defective field.
DefectRows ==
    { Row(NA,    Str("pA"), Str("c1"), Num(1000000)),
      Row(Text,  Str("pA"), Str("c1"), Num(1000000)),
      Row(Ts(1), NA,        Str("c1"), Num(1000000)),
      Row(Ts(1), Str("  "), Str("c1"), Num(1000000)),
      Row(Ts(1), Num(7),    Str("c1"), Num(1000000)),
      Row(Ts(1), Str("pA"), NA,        Num(1000000)),
      Row(Ts(1), Str("pA"), Str(""),   Num(1000000)),
      Row(Ts(1), Str("pA"), Str("c1"), NA),
      Row(Ts(1), Str("pA"), Str("c1"), Text),
      Row(Ts(1), Str("pA"), Str("c1"), Num(-5000)) }

RawRows == ValidRows \cup DefectRows

SeqsUpTo(S, k) == UNION { [1..m -> S] : m \in 0..k }

\* One purchase per day at most: what is bought on a day, if anything.
Purchases ==
    { <<"c1", 1000000>>, <<"c2", 3000000>>, <<"c3", 1000004>> }

RECURSIVE ScheduleRows(_, _)
ScheduleRows(plan, d) ==
    IF plan = <<>> THEN <<>>
    ELSE IF Head(plan) = <<"", 0>> THEN ScheduleRows(Tail(plan), d + 1)
         ELSE <<Row(Ts(d), Str("pA"), Str(Head(plan)[1]), Num(Head(plan)[2]))>>
              \o ScheduleRows(Tail(plan), d + 1)

ScheduleTables ==
    { ScheduleRows(plan, 1) : plan \in [1..MaxSpan -> Purchases \cup {<<"", 0>>}] }

\* A raw table: the columns it has, its rows, and the identifier columns that
\* are stored as floats (a column read with every cell missing).
Table(cs, r, fl) == [cols |-> cs, rows |-> r, float_cols |-> fl]

(***************************************************************************)
(* app.py load_data / create_sample_data                                   *)
(*                                                                         *)
(* Column names of the ingestion side: '購入日' = purchase_date,           *)
(* '購入カテゴリー' = purchase_category, '顧客ID' = customer_id,           *)
(* '購入金額' = purchase_amount, '年齢' = age, '支払方法' = payment.       *)
(***************************************************************************)
\* load_data: required_columns of the upload check.
upload_required_columns ==
    {"purchase_date", "purchase_category", "customer_id", "purchase_amount"}

\* create_sample_data: the keys of the generated records.  (The frame has 910
\* generated rows; one row stands for them, the constructor's column check
\* does not look at rows.)
create_sample_data ==
    Table({"purchase_date", "purchase_category", "product", "customer_id", "age",
           "gender", "region", "purchase_amount", "payment"},
          <<Row(Ts(1), Str("pA"), Str("c1"), Num(1000000))>>, {})

\* uploaded_file is None; load_data returns None.  (Markers, told apart from
\* every table by their third field.)
NoUpload == [cols |-> {}, rows |-> <<>>, float_cols |-> {"no upload"}]
NoData == [cols |-> {}, rows |-> <<>>, float_cols |-> {"no data"}]

\* validate_csv_data raises when a column of the upload check is missing
\* (read_csv with parse_dates=['購入日'] raises on a missing date column too).
validate_csv_data_raises(t) == upload_required_columns \ t.cols # {}

\* load_data: the uploaded frame when it passes the check, nothing when the
\* check raises, the sample data when no file is uploaded.
load_data(uploaded_file) ==
    IF uploaded_file = NoUpload THEN create_sample_data
    ELSE IF validate_csv_data_raises(uploaded_file) THEN NoData
    ELSE uploaded_file

\* Uploaded files: with the ingestion columns only, with one of them missing,
\* with the constructor's columns only, and with every column the run reads.
Uploads ==
    { Table(cs, r, {}) :
        cs \in { upload_required_columns,
                 upload_required_columns \ {"purchase_amount"},
                 required_columns,
                 upload_required_columns \cup required_columns \cup dashboard_columns },
        r \in SeqsUpTo(ValidRows, 1) \ {<<>>} }

\* What main() hands to the constructor; main() returns when there is no data.
IngestedTables == { load_data(u) : u \in Uploads \cup {NoUpload} } \ {NoData}

RawTables ==
    { Table(required_columns, r, {}) : r \in SeqsUpTo(RawRows, MaxRows) }
    \cup { Table(required_columns, r, {}) : r \in ScheduleTables }
    \cup UNION { { Table(required_columns, r, {c}) :
                     r \in { q \in SeqsUpTo(RawRows, MaxRows) :
                               Len(q) >= 1 /\ \A i \in DOMAIN q : q[i][c] = NA } } :
                   c \in {"product", "customer"} }
    \cup { Table(cs, r, {}) :
             cs \in (SUBSET required_columns) \ {required_columns},
             r \in SeqsUpTo({Row(Ts(1), Str("pA"), Str("c1"), Num(1000000))}, 1) }
    \cup { Table(required_columns \cup dashboard_columns, r, {}) :
             r \in SeqsUpTo(ValidRows, 2) \ {<<>>} }
    \cup IngestedTables

(***************************************************************************)
(* DataProcessor.__init__                                                  *)
(***************************************************************************)
NoError == "none"
Outcome(ok, e, d, st) == [ok |-> ok, err |-> e, df |-> d, steps |-> st]

\* _validate_columns: the required columns absent from the table.
missing_columns(t) == required_columns \ t.cols

\* pd.to_datetime on one cell (errors='raise').
to_datetime(c) == IF c.tag = "ts" THEN c ELSE NA
to_datetime_raises(rows) == \E i \in DOMAIN rows : rows[i].date.tag = "text"

\* pd.to_numeric(errors='coerce') on one cell.
to_numeric(c) == IF c.tag = "num" THEN c ELSE NA

convert(rows) ==
    [i \in DOMAIN rows |->
        [rows[i] EXCEPT !.date = to_datetime(@), !.amount = to_numeric(@)]]

notna(c) == c.tag # "NA"

\* Series.str raises AttributeError unless the column is an object column
\* that holds a string, or nothing at all.
str_accessor_raises(t, col) ==
    \/ col \in t.float_cols
    \/ /\ \A i \in DOMAIN t.rows : t.rows[i][col].tag # "str"
       /\ \E i \in DOMAIN t.rows : t.rows[i][col].tag # "NA"

\* x.str.strip() != '' : a non-string cell strips to NaN, and NaN != '' holds.
strip_nonempty(c) == c.tag # "str" \/ c.s \notin {"", " ", "  "}

\* Variant of valid_row: the sign of the amount is not checked.
valid_row_any_sign(r) ==
    /\ notna(r.date)
    /\ notna(r.amount)
    /\ notna(r.product)
    /\ strip_nonempty(r.product)
    /\ notna(r.customer)
    /\ strip_nonempty(r.customer)

valid_row(r) ==
    /\ notna(r.date)
    /\ notna(r.amount)
    /\ r.amount.n >= 0
    /\ notna(r.product)
    /\ strip_nonempty(r.product)
    /\ notna(r.customer)
    /\ strip_nonempty(r.customer)

filter_valid(rows) == SelectRows(rows, [i \in DOMAIN rows |-> valid_row(rows[i])])

\* Variant of sort_values: the rows are left in their order.
sort_values_skipped(rows) == {rows}

\* sort_values('日付'): the default sort is not stable, rows of one date may
\* come out in any order.
RECURSIVE sort_values(_)
sort_values(rows) ==
    IF rows = <<>> THEN {<<>>}
    ELSE UNION { { <<rows[i]>> \o t : t \in sort_values(RemoveAt(rows, i)) } :
                 i \in { j \in DOMAIN rows :
                           \A k \in DOMAIN rows : rows[j].date.n <= rows[k].date.n } }

\* Variant of validate_data: an empty table is accepted.
validate_data_accepts_empty(rows) == NoError

\* Variant of validate_data: a date range of zero length is rejected too.
validate_data_nonpositive_range(rows) ==
    IF Len(rows) = 0 THEN "EmptyDatasetError"
    ELSE IF Max({rows[i].date.n : i \in DOMAIN rows})
              <= Min({rows[i].date.n : i \in DOMAIN rows})
         THEN "InvalidDateRangeError"
         ELSE NoError

\* _validate_data: the error it raises on a table, or NoError.  (Its last
\* step only prints a warning when the amounts vary widely.)
validate_data(rows) ==
    IF Len(rows) = 0 THEN "EmptyDatasetError"
    ELSE IF Max({rows[i].date.n : i \in DOMAIN rows})
              < Min({rows[i].date.n : i \in DOMAIN rows})
         THEN "InvalidDateRangeError"
         ELSE NoError

\* _preprocess_data after the column check: the set of outcomes.
preprocess_data(t, st) ==
    IF to_datetime_raises(t.rows)
    THEN { Outcome(FALSE, "DateParseError", <<>>, st \o <<"to_datetime">>) }
    ELSE IF str_accessor_raises(t, "product") \/ str_accessor_raises(t, "customer")
    THEN { Outcome(FALSE, "StrAccessorError", <<>>,
                   st \o <<"to_datetime", "to_numeric", "filter">>) }
    ELSE { IF validate_data(s) = NoError
           THEN Outcome(TRUE, NoError, s,
                  st \o <<"to_datetime", "to_numeric", "filter", "sort", "validate_data">>)
           ELSE Outcome(FALSE, validate_data(s), <<>>,
                  st \o <<"to_datetime", "to_numeric", "filter", "sort", "validate_data">>)
           : s \in sort_values(filter_valid(convert(t.rows))) }

\* Variant of init_processor: preprocessing runs without the column check.
init_processor_unchecked(t) == preprocess_data(t, <<"copy">>)

\* __init__: copy, column check, preprocessing.
init_processor(t) ==
    IF missing_columns(t) # {}
    THEN { Outcome(FALSE, "SchemaError", <<>>, <<"copy", "validate_columns">>) }
    ELSE preprocess_data(t, <<"copy", "validate_columns">>)

(***************************************************************************)
(* Calendar.  Day 1 is Monday 2024-01-29; the model's dates lie in         *)
(* January..April 2024.                                                    *)
(***************************************************************************)
\* Last model day of each month: 2024-01-31, 2024-02-29, 2024-03-31, 2024-04-30.
month_ends == <<3, 32, 63, 93>>

month_index(d) == Min({ i \in DOMAIN month_ends : d <= month_ends[i] })

\* strftime('%Y-%m-%d') and strftime('%Y-%m') as tuples, ordered like the strings.
strftime_ymd(d) ==
    LET i == month_index(d)
    IN  <<2024, i, IF i = 1 THEN d + 28 ELSE d - month_ends[i - 1]>>
strftime_ym(d) == <<2024, month_index(d)>>

\* pd.Grouper(freq=...): the label of the bin a day falls in.
\*   'D'      the day itself
\*   'W-MON'  weekly bins closed and labelled on their last day, a Monday
\*   'ME'     calendar months, labelled by their last day
bin_of(freq, d) ==
    CASE freq = "D"     -> d
      [] freq = "W-MON" -> d + ((8 - d) % 7)
      [] freq = "ME"    -> month_ends[month_index(d)]

\* Variant of bin_range: only the bins of the first and of the last day.
bin_range_ends_only(freq, lo, hi) == {bin_of(freq, lo), bin_of(freq, hi)}

\* All bins from the bin of the first day to the bin of the last day.
bin_range(freq, lo, hi) ==
    CASE freq = "D"     -> lo..hi
      [] freq = "W-MON" -> { b \in bin_of(freq, lo)..bin_of(freq, hi) : bin_of(freq, b) = b }
      [] freq = "ME"    -> { month_ends[i] : i \in month_index(lo)..month_index(hi) }

(***************************************************************************)
(* Arithmetic on thousandths                                               *)
(***************************************************************************)
NaN == Cell("nan", 0, "")
Inf == Cell("inf", 0, "")

RECURSIVE DivDigits(_, _, _, _)
DivDigits(q, r, p, k) ==
    IF k = 0 THEN [q |-> q, r |-> r]
    ELSE DivDigits(q * 10 + ((r * 10) \div p), (r * 10) % p, p, k - 1)

\* m * 10^k / p rounded to the nearest integer, ties to even (m >= 0, p > 0).
ScaledRound(m, p, k) ==
    LET z == DivDigits(m \div p, m % p, p, k)
    IN  IF 2 * z.r < p THEN z.q
        ELSE IF 2 * z.r > p THEN z.q + 1
        ELSE IF z.q % 2 = 0 THEN z.q ELSE z.q + 1

\* Variant of round2: rounds up to the next hundredth.
round2_up(v) == ((v + 9) \div 10) * 10

\* round(2) of a non-negative value given in thousandths.
round2(v) == ScaledRound(v, 10, 0) * 10

\* Variant of pct_change: the change is taken relative to the current value.
pct_change_by_current(prev, cur) ==
    IF cur = 0 THEN (IF prev = 0 THEN NaN ELSE Inf)
    ELSE IF cur >= prev THEN Num(ScaledRound(cur - prev, cur, 4) * 10)
         ELSE Num(0 - ScaledRound(prev - cur, cur, 4) * 10)

\* Series.pct_change() * 100 for one step, then round(2); thousandths of a percent.
pct_change(prev, cur) ==
    IF prev = 0 THEN (IF cur = 0 THEN NaN ELSE Inf)
    ELSE IF cur >= prev THEN Num(ScaledRound(cur - prev, prev, 4) * 10)
         ELSE Num(0 - ScaledRound(prev - cur, prev, 4) * 10)

\* Variant of fillna_zero: nothing is filled.
fillna_none(c) == c

\* growth_rates.fillna(0), one cell.
fillna_zero(c) == IF c = NaN THEN Num(0) ELSE c

amounts_of(rows) == [i \in DOMAIN rows |-> rows[i].amount.n]
dates_of(rows) == {rows[i].date.n : i \in DOMAIN rows}

(***************************************************************************)
(* calculate_time_series_metrics                                           *)
(***************************************************************************)
rows_in_bin(rows, freq, b) ==
    LET InBin(r) == bin_of(freq, r.date.n) = b IN SelectSeq(rows, InBin)

\* One row of a period table before pct_change: agg + fillna(0).
agg_row(rows, freq, b) ==
    LET a == amounts_of(rows_in_bin(rows, freq, b))
        n == Len(a)
    IN  [bin   |-> b,
         sum   |-> SumSeq(a),
         count |-> n,
         mean  |-> IF n = 0 THEN 0 ELSE ScaledRound(SumSeq(a), 10 * n, 0) * 10,
         min   |-> IF n = 0 THEN 0 ELSE Min(Range(a)),
         max   |-> IF n = 0 THEN 0 ELSE Max(Range(a))]

\* A period table: contiguous bins, labels formatted, pct_change, round(2).
\* (The std column is left out: it needs a square root.)
period_table(rows, freq, fmt) ==
    LET axis == SetToSortedSeq(bin_range(freq, Min(dates_of(rows)), Max(dates_of(rows))))
        agg  == [i \in DOMAIN axis |-> agg_row(rows, freq, axis[i])]
    IN  [i \in DOMAIN axis |->
           [label |-> IF fmt = "ym" THEN strftime_ym(axis[i]) ELSE strftime_ymd(axis[i]),
            sum   |-> round2(agg[i].sum),
            count |-> agg[i].count,
            mean  |-> agg[i].mean,
            min   |-> round2(agg[i].min),
            max   |-> round2(agg[i].max),
            pct   |-> IF i = 1 THEN NaN ELSE pct_change(agg[i - 1].sum, agg[i].sum)]]

calculate_time_series_metrics(rows) ==
    [op      |-> "time_series",
     daily   |-> period_table(rows, "D", "ymd"),
     weekly  |-> period_table(rows, "W-MON", "ymd"),
     monthly |-> period_table(rows, "ME", "ym")]

(***************************************************************************)
(* calculate_customer_metrics: RFM scoring and segmentation                *)
(*                                                                         *)
(* A Series is a function from index labels (cells) to values.  The rfm    *)
(* table is indexed by customer; pd.Series([2] * len(x)) is indexed by     *)
(* position, 0 .. len(x) - 1.                                              *)
(***************************************************************************)
customers_of(rows) == {rows[i].customer : i \in DOMAIN rows}

rows_of_customer(rows, c) ==
    LET Mine(r) == r.customer = c IN SelectSeq(rows, Mine)

\* Variant of rfm_measures: recency is counted from the customer's first
\* purchase.
rfm_measures_since_first(rows) ==
    LET current_date == Max(dates_of(rows))
    IN  [c \in customers_of(rows) |->
           LET mine == rows_of_customer(rows, c)
           IN  [Recency   |-> current_date - Min(dates_of(mine)),
                Frequency |-> Len(mine),
                Monetary  |-> SumSeq(amounts_of(mine))]]

\* rfm = df.groupby('顧客').agg(...): Recency (days from the customer's last
\* purchase to the last date of the record set), Frequency (number of
\* records), Monetary (sum of the amounts) per customer.
rfm_measures(rows) ==
    LET current_date == Max(dates_of(rows))
    IN  [c \in customers_of(rows) |->
           LET mine == rows_of_customer(rows, c)
           IN  [Recency   |-> current_date - Max(dates_of(mine)),
                Frequency |-> Len(mine),
                Monetary  |-> SumSeq(amounts_of(mine))]]

\* The values of a Series in ascending order, with multiplicity.
RECURSIVE sorted_values(_, _)
sorted_values(x, labels) ==
    IF labels = {} THEN <<>>
    ELSE LET l == CHOOSE a \in labels : \A b \in labels : x[a] <= x[b]
         IN  <<x[l]>> \o sorted_values(x, labels \ {l})

\* Series.quantile([0, .25, .5, .75, 1]) with linear interpolation; every
\* edge is given times 4, which keeps it an integer.
quantile_edges4(x) ==
    LET sv == sorted_values(x, DOMAIN x)
        n  == Len(sv)
    IN  [k \in 0..4 |->
           LET lo == ((n - 1) * k) \div 4
               fr == ((n - 1) * k) % 4
           IN  IF fr = 0 THEN 4 * sv[lo + 1]
               ELSE 4 * sv[lo + 1] + fr * (sv[lo + 2] - sv[lo + 1])]

\* pd.qcut(x, q=4, labels=labels, duplicates='drop') raises ValueError when
\* dropping duplicate edges leaves fewer than 5: 4 labels need 4 bins.
qcut_raises(x) == Cardinality({quantile_edges4(x)[k] : k \in 0..4}) < 5

\* The bin of each value: right-closed intervals, the lowest value included.
qcut(x, labels) ==
    LET e == quantile_edges4(x)
    IN  [l \in DOMAIN x |->
           LET ids == Cardinality({k \in 0..4 : e[k] < 4 * x[l]})
           IN  Num(labels[IF 4 * x[l] = e[0] THEN 1 ELSE ids])]

\* pd.Series([2] * len(x)): default index 0 .. len(x) - 1.
neutral_series(x) == [l \in {Num(i) : i \in 0..(Cardinality(DOMAIN x) - 1)} |-> Num(2)]

nunique(x) == Cardinality({x[l] : l \in DOMAIN x})

\* Variant of score_rfm: the labels are never reversed.
score_rfm_not_reversed(x, reverse) ==
    IF nunique(x) = 1 THEN neutral_series(x)
    ELSE IF qcut_raises(x) THEN neutral_series(x)
    ELSE qcut(x, <<1, 2, 3, 4>>)

\* score_rfm (the measures of a canonical record set are never null, so its
\* first branch is never taken).
score_rfm(x, reverse) ==
    IF nunique(x) = 1 THEN neutral_series(x)
    ELSE IF qcut_raises(x) THEN neutral_series(x)
    ELSE qcut(x, IF reverse THEN <<4, 3, 2, 1>> ELSE <<1, 2, 3, 4>>)

\* rfm[col] = series: the series is aligned on the table's index, labels it
\* does not have become NaN.
set_column(index, series) ==
    [l \in index |-> IF l \in DOMAIN series THEN series[l] ELSE NA]

\* Variant of fillna_int: missing scores are filled with 0.
fillna_int_zero(col) == [l \in DOMAIN col |-> IF col[l] = NA THEN 0 ELSE col[l].n]

\* fillna(1) and astype('Int64').
fillna_int(col) == [l \in DOMAIN col |-> IF col[l] = NA THEN 1 ELSE col[l].n]

\* Variant of segment_customer: the third rule uses a strict comparison.
segment_customer_strict(row) ==
    IF row.R >= 3 /\ row.F >= 3 /\ row.M >= 3 THEN "VIP"
    ELSE IF row.R >= 3 /\ row.F >= 3 THEN "Preferred"
    ELSE IF row.R > 2 /\ row.F > 2 THEN "Regular"
    ELSE "NeedsFollowUp"

segment_customer(row) ==
    IF row.R >= 3 /\ row.F >= 3 /\ row.M >= 3 THEN "VIP"
    ELSE IF row.R >= 3 /\ row.F >= 3 THEN "Preferred"
    ELSE IF row.R >= 2 /\ row.F >= 2 THEN "Regular"
    ELSE "NeedsFollowUp"

rfm_table(rows) ==
    LET m     == rfm_measures(rows)
        index == DOMAIN m
        R == fillna_int(set_column(index, score_rfm([c \in index |-> m[c].Recency], TRUE)))
        F == fillna_int(set_column(index, score_rfm([c \in index |-> m[c].Frequency], FALSE)))
        M == fillna_int(set_column(index, score_rfm([c \in index |-> m[c].Monetary], FALSE)))
    IN  [c \in index |->
           [Recency |-> m[c].Recency, Frequency |-> m[c].Frequency,
            Monetary |-> m[c].Monetary, R |-> R[c], F |-> F[c], M |-> M[c],
            segment |-> segment_customer([R |-> R[c], F |-> F[c], M |-> M[c]])]]

\* pd.pivot_table(df, values='売上', index=date_col, columns='顧客',
\* aggfunc='sum'): a date and customer without a record is a missing cell.
customer_pivot(rows) ==
    [d \in dates_of(rows) |->
        [c \in customers_of(rows) |->
            LET Sel(r) == r.date.n = d /\ r.customer = c
                a == amounts_of(SelectSeq(rows, Sel))
            IN  IF a = <<>> THEN NaN ELSE Num(SumSeq(a))]]

\* .fillna(0), then the index formatted with strftime('%Y-%m-%d').
customer_time_series(rows) ==
    [l \in {strftime_ymd(d) : d \in dates_of(rows)} |->
        [c \in customers_of(rows) |->
            fillna_zero(customer_pivot(rows)[CHOOSE d \in dates_of(rows) : strftime_ymd(d) = l][c])]]

\* A frame handed to an analysis method: its columns and its rows.
Frame(cs, rows) == [cols |-> cs, rows |-> rows]

\* Variant of computation_error: the exception leaves the method as it was
\* raised.
computation_error_unwrapped(cause) == [error |-> cause, cause |-> ""]

\* except Exception as e: raise ValueError(f"<operation>: {str(e)}")
computation_error(cause) == [error |-> "ComputationError", cause |-> cause]

\* The first exception raised inside the try block of
\* calculate_customer_metrics, or NoError.
customer_metrics_failure(f) ==
    IF "date" \notin f.cols THEN "ValueError: date column not found"
    ELSE IF "customer" \notin f.cols THEN "KeyError: customer"
    ELSE IF "amount" \notin f.cols THEN "KeyError: amount"
    ELSE NoError

calculate_customer_metrics(f) ==
    IF customer_metrics_failure(f) # NoError
    THEN [op |-> "customer_metrics", cols |-> f.cols,
          error |-> computation_error(customer_metrics_failure(f)).error,
          cause |-> computation_error(customer_metrics_failure(f)).cause,
          time_series |-> <<>>, rfm |-> <<>>]
    ELSE [op |-> "customer_metrics", cols |-> f.cols,
          error |-> NoError, cause |-> "",
          time_series |-> customer_time_series(f.rows),
          rfm |-> rfm_table(f.rows)]

(***************************************************************************)
(* calculate_growth_rates                                                  *)
(***************************************************************************)
freq_map == [daily |-> "D", weekly |-> "W-MON", monthly |-> "ME"]

\* groupby([Grouper(key='日付', freq), group_by])['売上'].sum(): the observed
\* (bin, group) pairs and their sums; the bin is then formatted as '期間'.
period_label(period, b) ==
    IF period = "monthly" THEN strftime_ym(b) ELSE strftime_ymd(b)

group_sum(rows, freq, group_by, b, g) ==
    LET Sel(r) == bin_of(freq, r.date.n) = b /\ r[group_by] = g
    IN  SumSeq(amounts_of(SelectSeq(rows, Sel)))

observed(rows, freq, group_by) ==
    { <<bin_of(freq, rows[i].date.n), rows[i][group_by]>> : i \in DOMAIN rows }

\* pd.pivot_table(index='期間', columns=group_by, fill_value=0): one row per
\* observed period, one column per observed group.
pivot_table(rows, group_by, period) ==
    LET freq   == freq_map[period]
        obs    == observed(rows, freq, group_by)
        axis   == SetToSortedSeq({o[1] : o \in obs})
        groups == {o[2] : o \in obs}
    IN  [i \in DOMAIN axis |->
           [bin   |-> axis[i],
            total |-> [g \in groups |->
                         IF <<axis[i], g>> \in obs
                         THEN group_sum(rows, freq, group_by, axis[i], g) ELSE 0]]]

\* Variant of growth_table: only the first row is filled with 0.
growth_table_first_row_only(rows, group_by, period) ==
    LET pivot == pivot_table(rows, group_by, period)
    IN  [i \in DOMAIN pivot |->
           [label |-> period_label(period, pivot[i].bin),
            rate  |-> [g \in DOMAIN pivot[i].total |->
                         IF i = 1 THEN Num(0)
                         ELSE pct_change(pivot[i - 1].total[g], pivot[i].total[g])]]]

\* pct_change down the rows of the pivot, * 100, fillna(0), round(2).
growth_table(rows, group_by, period) ==
    LET pivot == pivot_table(rows, group_by, period)
    IN  [i \in DOMAIN pivot |->
           [label |-> period_label(period, pivot[i].bin),
            rate  |-> [g \in DOMAIN pivot[i].total |->
                         fillna_zero(IF i = 1 THEN NaN
                                     ELSE pct_change(pivot[i - 1].total[g],
                                                     pivot[i].total[g]))]]]

\* The first exception raised inside the try block of
\* calculate_growth_rates, or NoError.
growth_rates_failure(f, group_by, period) ==
    IF "date" \notin f.cols THEN "ValueError: date column not found"
    ELSE IF period \notin DOMAIN freq_map THEN "KeyError: period"
    ELSE IF group_by \notin f.cols THEN "KeyError: group column"
    ELSE IF "amount" \notin f.cols THEN "KeyError: amount"
    ELSE NoError

calculate_growth_rates(f, group_by, period) ==
    IF growth_rates_failure(f, group_by, period) # NoError
    THEN [op |-> "growth_rates", cols |-> f.cols,
          error |-> computation_error(growth_rates_failure(f, group_by, period)).error,
          cause |-> computation_error(growth_rates_failure(f, group_by, period)).cause,
          group_by |-> group_by, period |-> period, table |-> <<>>]
    ELSE [op |-> "growth_rates", cols |-> f.cols,
          error |-> NoError, cause |-> "",
          group_by |-> group_by, period |-> period,
          table |-> growth_table(f.rows, group_by, period)]

(***************************************************************************)
(* analyze_trends                                                          *)
(***************************************************************************)
\* df['売上'].resample(freq).sum(): one row per bin from the first record's
\* bin to the last record's bin, an empty bin summing to 0.
resample_sum(rows, freq) ==
    LET axis == SetToSortedSeq(bin_range(freq, Min(dates_of(rows)), Max(dates_of(rows))))
    IN  [i \in DOMAIN axis |->
           [bin |-> axis[i], sum |-> SumSeq(amounts_of(rows_in_bin(rows, freq, axis[i])))]]

\* round(0) of a non-negative value given in thousandths.
round0(v) == ScaledRound(v, 1000, 0) * 1000

\* Variant of rolling_mean: no value until the window is full (min_periods
\* left at its default, the window length).
rolling_mean_full_window(sums, i, w) ==
    IF i < w THEN NaN
    ELSE Num(ScaledRound(SumSeq(SubSeq(sums, i - w + 1, i)), 1000 * w, 0) * 1000)

\* sales.rolling(window=w, min_periods=1).mean() at row i (1-based), then
\* round(0): the mean over rows max(1, i - w + 1) .. i.
rolling_mean(sums, i, w) ==
    LET lo == Max({1, i - w + 1})
        k  == i - lo + 1
    IN  Num(ScaledRound(SumSeq(SubSeq(sums, lo, i)), 1000 * k, 0) * 1000)

\* The period strings select the daily and the weekly rule; any other string
\* selects the monthly rule.
trend_freq(period) ==
    IF period = "daily" THEN "D"
    ELSE IF period = "weekly" THEN "W-MON"
    ELSE "ME"

analyze_trends(rows, period) ==
    LET sales == resample_sum(rows, trend_freq(period))
        sums  == [i \in DOMAIN sales |-> sales[i].sum]
    IN  [op     |-> "trends",
         period |-> period,
         table  |-> [i \in DOMAIN sales |->
                       [bin   |-> sales[i].bin,
                        sales |-> Num(round0(sums[i])),
                        ma7   |-> rolling_mean(sums, i, 7),
                        ma30  |-> rolling_mean(sums, i, 30)]]]

(***************************************************************************)
(* validate_analysis_results                                               *)
(***************************************************************************)
\* Squares of differences do not fit the integers of the checker: a value
\* hi * 10^8 + lo is kept as a pair.
big_square(d) ==
    LET a  == d \div 10000
        b  == d % 10000
        m  == 2 * a * b
        l0 == (m % 10000) * 10000 + b * b
    IN  [hi |-> a * a + (m \div 10000) + (l0 \div 100000000), lo |-> l0 % 100000000]

big_add(x, y) ==
    [hi |-> x.hi + y.hi + ((x.lo + y.lo) \div 100000000), lo |-> (x.lo + y.lo) % 100000000]

big_scale(k, x) ==
    [hi |-> k * x.hi + ((k * x.lo) \div 100000000), lo |-> (k * x.lo) % 100000000]

big_greater(x, y) == x.hi > y.hi \/ (x.hi = y.hi /\ x.lo > y.lo)

RECURSIVE big_sum(_)
big_sum(sq) == IF sq = <<>> THEN [hi |-> 0, lo |-> 0] ELSE big_add(Head(sq), big_sum(Tail(sq)))

\* abs(x - mean) > 3 * std for amount i of a, std being the sample standard
\* deviation (NaN for a single amount, and no comparison with NaN holds).
\* With n amounts of sum S and d_j = n * x_j - S this is
\* (n - 1) * d_i^2 > 9 * sum of d_j^2.
is_outlier(a, i) ==
    LET n == Len(a)
        d == [j \in DOMAIN a |-> IF n * a[j] >= SumSeq(a) THEN n * a[j] - SumSeq(a)
                                 ELSE SumSeq(a) - n * a[j]]
    IN  /\ n >= 2
        /\ big_greater(big_scale(n - 1, big_square(d[i])),
                       big_scale(9, big_sum([j \in DOMAIN a |-> big_square(d[j])])))

\* The sum of the amounts of the rows whose field key has the value v.
total_by(rows, key, v) ==
    LET Sel(r) == r[key] = v IN SumSeq(amounts_of(SelectSeq(rows, Sel)))

\* Variant of daily_total_by: the daily sums of a group are averaged.
daily_total_by_mean(rows, key, v) ==
    LET days == SetToSortedSeq(dates_of(rows))
        sums == [i \in DOMAIN days |->
                   LET Sel(r) == r.date.n = days[i] /\ r[key] = v
                   IN  SumSeq(amounts_of(SelectSeq(rows, Sel)))]
        seen == {i \in DOMAIN days : \E j \in DOMAIN rows :
                    rows[j].date.n = days[i] /\ rows[j][key] = v}
    IN  SumSeq(sums) \div Cardinality(seen)

\* groupby(['日付', key]).sum().groupby(key).sum() at group v.
daily_total_by(rows, key, v) ==
    LET days == SetToSortedSeq(dates_of(rows))
    IN  SumSeq([i \in DOMAIN days |->
                  LET Sel(r) == r.date.n = days[i] /\ r[key] = v
                  IN  SumSeq(amounts_of(SelectSeq(rows, Sel)))])

check_names ==
    << "sales_total", "date_continuity", "product_totals", "customer_totals",
       "growth_rates", "rfm", "time_series", "outlier_ratio" >>

\* Whether step k of the checks raises on the frame.
step_raises(rows, k) ==
    CASE k = 2 -> rows = <<>>
      [] k = 5 -> calculate_growth_rates(Frame(required_columns, rows), "product", "monthly").error # NoError
      [] k = 8 -> rows = <<>>
      [] OTHER -> FALSE

\* The value step k stores in validation_results.
step_value(rows, k) ==
    CASE k = 1 -> LET days == SetToSortedSeq(dates_of(rows))
                      daily == SumSeq([i \in DOMAIN days |->
                                  total_by(rows, "date", Ts(days[i]))])
                  IN  (IF SumSeq(amounts_of(rows)) >= daily
                       THEN SumSeq(amounts_of(rows)) - daily
                       ELSE daily - SumSeq(amounts_of(rows))) < 10
      [] k = 2 -> Max(dates_of(rows)) - Min(dates_of(rows)) + 1 >= Cardinality(dates_of(rows))
      [] k = 3 -> \A g \in {rows[i].product : i \in DOMAIN rows} :
                      total_by(rows, "product", g) - daily_total_by(rows, "product", g) \in -9..9
      [] k = 4 -> \A g \in {rows[i].customer : i \in DOMAIN rows} :
                      total_by(rows, "customer", g) - daily_total_by(rows, "customer", g) \in -9..9
      [] k = 5 -> LET t == calculate_growth_rates(Frame(required_columns, rows), "product", "monthly").table
                  IN  /\ t # <<>>
                      /\ DOMAIN t[1].rate # {}
                      /\ ~ \A g \in DOMAIN t[1].rate : \A i \in DOMAIN t : t[i].rate[g] = NaN
      [] k = 6 -> LET rfm == calculate_customer_metrics(Frame(required_columns, rows)).rfm
                  IN  \A c \in DOMAIN rfm : {"R", "F", "M", "segment"} \subseteq DOMAIN rfm[c]
      [] k = 7 -> {"daily", "weekly", "monthly"} \subseteq DOMAIN calculate_time_series_metrics(rows)
      [] k = 8 -> LET a == amounts_of(rows)
                  IN  100 * Cardinality({i \in DOMAIN a : is_outlier(a, i)}) < Len(a)

\* The try block from step k on: the step that raised (0 when none did) and
\* the values stored before it.
RECURSIVE run_checks(_, _, _)
run_checks(rows, k, stored) ==
    IF k > Len(check_names) THEN [failed_at |-> 0, stored |-> stored]
    ELSE IF step_raises(rows, k) THEN [failed_at |-> k, stored |-> stored]
    ELSE run_checks(rows, k + 1, Append(stored, step_value(rows, k)))

\* validation_results as a report: check name -> value.
report_of(stored) == [n \in {check_names[k] : k \in DOMAIN stored} |->
                        stored[CHOOSE k \in DOMAIN stored : check_names[k] = n]]

\* Variant of except_handler: the values stored before the failure are
\* returned together with the error entry.
except_handler_keeps_stored(stored) ==
    [n \in DOMAIN report_of(stored) \cup {"error"} |->
        IF n = "error" THEN FALSE ELSE report_of(stored)[n]]

\* except Exception: return {'エラー': False}
except_handler(stored) == [n \in {"error"} |-> FALSE]

validate_analysis_results(rows) ==
    LET run == run_checks(rows, 1, <<>>)
    IN  [op        |-> "validate",
         input     |-> rows,
         failed_at |-> run.failed_at,
         report    |-> IF run.failed_at # 0 THEN except_handler(run.stored)
                       ELSE report_of(run.stored)]

(***************************************************************************)
(* calculate_product_metrics                                               *)
(***************************************************************************)
products_of(rows) == {rows[i].product : i \in DOMAIN rows}

\* groupby('商品').agg(sum, mean, count, max, min).round(2)
product_stats(rows) ==
    [g \in products_of(rows) |->
        LET Sel(r) == r.product = g
            a == amounts_of(SelectSeq(rows, Sel))
        IN  [sum   |-> round2(SumSeq(a)),
             mean  |-> ScaledRound(SumSeq(a), 10 * Len(a), 0) * 10,
             count |-> Len(a),
             max   |-> round2(Max(Range(a))),
             min   |-> round2(Min(Range(a)))]]

\* Variant of product_pivot: the cells hold the mean, pivot_table's default
\* aggfunc.
product_pivot_mean(rows) ==
    [d \in {Ts(k) : k \in dates_of(rows)} |->
        [g \in products_of(rows) |->
            LET Sel(r) == r.date = d /\ r.product = g
                a == amounts_of(SelectSeq(rows, Sel))
            IN  IF a = <<>> THEN NaN ELSE Num(SumSeq(a) \div Len(a))]]

\* pivot_table(values='売上', index='日付', columns='商品', aggfunc='sum'):
\* a date and product without a record is a missing cell.
product_pivot(rows) ==
    [d \in {Ts(k) : k \in dates_of(rows)} |->
        [g \in products_of(rows) |->
            LET Sel(r) == r.date = d /\ r.product = g
                a == amounts_of(SelectSeq(rows, Sel))
            IN  IF a = <<>> THEN NaN ELSE Num(SumSeq(a))]]

calculate_product_metrics(rows) ==
    [op          |-> "product_metrics",
     stats       |-> product_stats(rows),
     time_series |-> [d \in DOMAIN product_pivot(rows) |->
                        [g \in products_of(rows) |-> fillna_zero(product_pivot(rows)[d][g])]]]

(***************************************************************************)
(* app.py main(): the five tabs                                            *)
(***************************************************************************)
tab_names == <<"overview", "product", "customer", "time_series", "validation">>

\* Whether showing tab k on the filtered records raises.  The product tab
\* reads the key 'category_stats' of the product metrics bundle.
tab_raises(k, rows) ==
    CASE k = 2 -> "category_stats" \notin DOMAIN calculate_product_metrics(rows)
      [] OTHER -> FALSE

(***************************************************************************)
(* analyze_seasonality                                                     *)
(***************************************************************************)
\* dt.day_name(); day 1 is a Monday.
day_name(d) ==
    <<"Monday", "Tuesday", "Wednesday", "Thursday", "Friday", "Saturday", "Sunday">>[((d - 1) % 7) + 1]

\* The group key of a record: the weekday, (year, month), or the month; any
\* period string but the daily and the weekly one selects the month.
season_key(period, d) ==
    IF period = "daily" THEN day_name(d)
    ELSE IF period = "weekly" THEN <<strftime_ym(d)[1], strftime_ym(d)[2]>>
    ELSE strftime_ym(d)[2]

\* groupby(key)['売上'].agg(['mean', 'count']).round(0)
analyze_seasonality(rows, period) ==
    [op     |-> "seasonality",
     period |-> period,
     table  |-> [k \in {season_key(period, d) : d \in dates_of(rows)} |->
                   LET Sel(r) == season_key(period, r.date.n) = k
                       a == amounts_of(SelectSeq(rows, Sel))
                   IN  [mean  |-> ScaledRound(SumSeq(a), 1000 * Len(a), 0) * 1000,
                        count |-> Len(a)]]]

(***************************************************************************)
(* aggregate_sales                                                         *)
(***************************************************************************)
\* The index key of a row: its values in the group_by columns (a single
\* column name is a list of one).
group_key(r, group_by) == [i \in DOMAIN group_by |-> r[group_by[i]]]

\* The exception aggregate_sales raises (it has no handler), or NoError.
aggregate_failure(group_by, period) ==
    IF period # "none" /\ period \notin DOMAIN freq_map THEN "KeyError: period"
    ELSE IF Range(group_by) \ required_columns # {} THEN "KeyError: group column"
    ELSE NoError

\* The bin of a day under the optional period: none without a period.
aggregate_bin(period, d) == IF period = "none" THEN 0 ELSE bin_of(freq_map[period], d)

\* Variant of aggregate_index: every bin from the first to the last day is
\* crossed with every observed key.
aggregate_index_all_bins(rows, group_by, period) ==
    IF period = "none"
    THEN { <<0, group_key(rows[i], group_by)>> : i \in DOMAIN rows }
    ELSE IF rows = <<>> THEN {}
    ELSE bin_range(freq_map[period], Min(dates_of(rows)), Max(dates_of(rows)))
            \X { group_key(rows[i], group_by) : i \in DOMAIN rows }

\* df.groupby([Grouper, *group_by]): the observed (bin, key) pairs.
aggregate_index(rows, group_by, period) ==
    { <<aggregate_bin(period, rows[i].date.n), group_key(rows[i], group_by)>> :
        i \in DOMAIN rows }

\* .agg(['sum','mean','count','std','min','max']), the bin formatted with
\* strftime('%Y-%m-%d'), round(2).  (The std column is left out: it needs a
\* square root.)
aggregate_group(rows, group_by, period, ix) ==
    LET Sel(r) == /\ aggregate_bin(period, r.date.n) = ix[1]
                  /\ group_key(r, group_by) = ix[2]
        a == amounts_of(SelectSeq(rows, Sel))
        n == Len(a)
    IN  [label |-> IF period = "none" THEN <<>> ELSE strftime_ymd(ix[1]),
         key   |-> ix[2],
         sum   |-> IF n = 0 THEN 0 ELSE round2(SumSeq(a)),
         mean  |-> IF n = 0 THEN NaN ELSE Num(ScaledRound(SumSeq(a), 10 * n, 0) * 10),
         count |-> n,
         min   |-> IF n = 0 THEN NaN ELSE Num(round2(Min(Range(a)))),
         max   |-> IF n = 0 THEN NaN ELSE Num(round2(Max(Range(a))))]

aggregate_sales(rows, group_by, period) ==
    IF aggregate_failure(group_by, period) # NoError
    THEN [op |-> "aggregate", group_by |-> group_by, period |-> period,
          error |-> aggregate_failure(group_by, period), groups |-> {}]
    ELSE [op |-> "aggregate", group_by |-> group_by, period |-> period,
          error |-> NoError,
          groups |-> { aggregate_group(rows, group_by, period, ix) :
                         ix \in aggregate_index(rows, group_by, period) }]

(***************************************************************************)
(* cache_manager.py CacheManager                                           *)
(*                                                                         *)
(* A key of st.session_state is a triple <<prefix, name, rest>>: the keys  *)
(* of the decorator are "cache_" + func.__name__ + "_" + hash.             *)
(***************************************************************************)
\* The wrapped functions: two different functions may have the same
\* __name__.
wrapped_functions ==
    { [id |-> "f1", name |-> "load"], [id |-> "f2", name |-> "load"],
      [id |-> "f3", name |-> "stats"] }

\* The argument of a call, as a Python literal; a DataFrame stands for every
\* value json cannot serialise.
call_args == {"1", "'1'", "(1, 2)", "[1, 2]", "DataFrame"}

\* What the wrapped function does when invoked: it returns a value (it need
\* not be the same each time) or raises.
function_outcomes == {"v1", "v2", "raise"}

\* json.dumps({"args": args, "kwargs": kwargs}, sort_keys=True): a tuple is
\* written as a list; TypeError on a value that is not JSON serialisable.
json_dumps_raises(args) == args = "DataFrame"
json_dumps(args) ==
    CASE args = "1"      -> "{\"args\": [1], \"kwargs\": {}}"
      [] args = "'1'"    -> "{\"args\": [\"1\"], \"kwargs\": {}}"
      [] args = "(1, 2)" -> "{\"args\": [[1, 2]], \"kwargs\": {}}"
      [] args = "[1, 2]" -> "{\"args\": [[1, 2]], \"kwargs\": {}}"

\* hashlib.sha256(params_str.encode()).hexdigest(): one digest per string.
hash_params(args) == <<"sha256", json_dumps(args)>>

cache_key(func, args) == <<"cache_", func.name, hash_params(args)>>

startswith_cache(key) == key[1] = "cache_"

NoCall == [op |-> "none"]

\* cache_data(func)(*args): the session state after the call and what the
\* caller gets; outcome is what func does if it is invoked.
wrapper(state, func, args, outcome) ==
    IF json_dumps_raises(args)
    THEN [state |-> state,
          returned |-> [op |-> "call", func |-> func, args |-> args, invoked |-> 0,
                        outcome |-> "TypeError", value |-> ""]]
    ELSE IF cache_key(func, args) \in DOMAIN state
    THEN [state |-> state,
          returned |-> [op |-> "call", func |-> func, args |-> args, invoked |-> 0,
                        outcome |-> "value", value |-> state[cache_key(func, args)]]]
    ELSE IF outcome = "raise"
    THEN [state |-> state,
          returned |-> [op |-> "call", func |-> func, args |-> args, invoked |-> 1,
                        outcome |-> "raised", value |-> ""]]
    ELSE [state |-> [k \in DOMAIN state \cup {cache_key(func, args)} |->
                       IF k = cache_key(func, args) THEN outcome ELSE state[k]],
          returned |-> [op |-> "call", func |-> func, args |-> args, invoked |-> 1,
                        outcome |-> "value", value |-> outcome]]

\* clear_cache: every key that starts with "cache_" is deleted.
clear_cache(state) ==
    [k \in {x \in DOMAIN state : ~startswith_cache(x)} |-> state[k]]

\* The session state of a fresh session: one key of the application.
fresh_session == [k \in {<<"uploaded_", "file", <<>>>>} |-> "none"]

NoResult == [op |-> "none"]

Init ==
    /\ raw \in RawTables
    /\ pc = "start"
    /\ df = <<>>
    /\ err = NoError
    /\ steps = <<>>
    /\ result = NoResult
    /\ tabs = <<>>
    /\ session_state = fresh_session
    /\ returned = NoCall

\* Variant of Normalize: the constructor works on the caller's frame instead
\* of a copy of it, so the converted columns are written into that frame.
Normalize_in_place ==
    /\ pc = "start"
    /\ \E o \in init_processor(raw) :
         /\ pc' = IF o.ok THEN "ready" ELSE "failed"
         /\ df' = o.df
         /\ err' = o.err
         /\ steps' = o.steps
         /\ raw' = IF "to_numeric" \in Range(o.steps)
                   THEN [raw EXCEPT !.rows = convert(raw.rows)]
                   ELSE raw
    /\ UNCHANGED <<result, tabs, session_state, returned>>

\* main(): data_processor = DataProcessor(df)
Normalize ==
    /\ pc = "start"
    /\ \E o \in init_processor(raw) :
         /\ pc' = IF o.ok THEN "ready" ELSE "failed"
         /\ df' = o.df
         /\ err' = o.err
         /\ steps' = o.steps
    /\ UNCHANGED <<raw, result, tabs, session_state, returned>>

\* show_time_series_tab: data_processor.calculate_time_series_metrics(filtered_df)
TimeSeriesMetrics ==
    /\ pc = "ready"
    /\ result' = calculate_time_series_metrics(df)
    /\ pc' = "called"
    /\ UNCHANGED <<raw, df, err, steps, tabs, session_state, returned>>

\* show_customer_analysis_tab: data_processor.calculate_customer_metrics(filtered_df)
CustomerMetrics ==
    /\ pc = "ready"
    /\ \E cs \in {required_columns, required_columns \ {"date"}} :
         result' = calculate_customer_metrics(Frame(cs, df))
    /\ pc' = "called"
    /\ UNCHANGED <<raw, df, err, steps, tabs, session_state, returned>>

\* data_processor.calculate_growth_rates(filtered_df, group_by, period)
GrowthRates ==
    /\ pc = "ready"
    /\ \E g \in {"product", "customer"}, p \in {"daily", "weekly", "monthly", "yearly"},
          cs \in {required_columns, required_columns \ {"date"}} :
         result' = calculate_growth_rates(Frame(cs, df), g, p)
    /\ pc' = "called"
    /\ UNCHANGED <<raw, df, err, steps, tabs, session_state, returned>>

\* show_time_series_tab: data_processor.analyze_trends(filtered_df, period)
Trends ==
    /\ pc = "ready"
    /\ \E p \in {"daily", "weekly", "monthly"} : result' = analyze_trends(df, p)
    /\ pc' = "called"
    /\ UNCHANGED <<raw, df, err, steps, tabs, session_state, returned>>

\* data_processor.validate_analysis_results(filtered_df), on the canonical
\* records or on an empty selection of them.
Validate ==
    /\ pc = "ready"
    /\ \E f \in {df, <<>>} : result' = validate_analysis_results(f)
    /\ pc' = "called"
    /\ UNCHANGED <<raw, df, err, steps, tabs, session_state, returned>>

\* data_processor.calculate_product_metrics(filtered_df)
ProductMetrics ==
    /\ pc = "ready"
    /\ result' = calculate_product_metrics(df)
    /\ pc' = "called"
    /\ UNCHANGED <<raw, df, err, steps, tabs, session_state, returned>>

\* main() after the constructor: the sidebar filters read the dashboard
\* columns (a missing one raises KeyError), every filter is left at "all",
\* and the tabs are created.
MainFilters ==
    /\ pc = "ready"
    /\ tabs = <<>>
    /\ pc' = IF dashboard_columns \subseteq raw.cols THEN "main" ELSE "aborted"
    /\ UNCHANGED <<raw, df, err, steps, result, tabs, session_state, returned>>

\* main(): the next "with tab: show_..." block.  Nothing around the blocks
\* catches an exception: a tab that raises ends the run.
ShowTab ==
    /\ pc = "main"
    /\ LET k == Len(tabs) + 1
       IN  IF tab_raises(k, df)
           THEN /\ tabs' = Append(tabs, [tab |-> tab_names[k], ok |-> FALSE])
                /\ pc' = "aborted"
           ELSE /\ tabs' = Append(tabs, [tab |-> tab_names[k], ok |-> TRUE])
                /\ pc' = IF k = Len(tab_names) THEN "done" ELSE "main"
    /\ UNCHANGED <<raw, df, err, steps, result, session_state, returned>>

\* show_time_series_tab: data_processor.analyze_seasonality(filtered_df, period)
Seasonality ==
    /\ pc = "ready"
    /\ \E p \in {"daily", "weekly", "monthly"} : result' = analyze_seasonality(df, p)
    /\ pc' = "called"
    /\ UNCHANGED <<raw, df, err, steps, tabs, session_state, returned>>

\* data_processor.aggregate_sales(group_by, period=...) on the canonical set
Aggregate ==
    /\ pc = "ready"
    /\ \E g \in {<<"product">>, <<"customer">>, <<"product", "customer">>},
          p \in {"none", "daily", "weekly", "monthly", "yearly"} :
         result' = aggregate_sales(df, g, p)
    /\ pc' = "called"
    /\ UNCHANGED <<raw, df, err, steps, tabs, session_state, returned>>

\* DataProcessor(data_processor.df): a second processor is built from the
\* canonical record set of the first.
Renormalize ==
    /\ pc = "ready"
    /\ \E o \in init_processor(Table(raw.cols, df, {})) :
         result' = [op |-> "normalize", ok |-> o.ok, err |-> o.err, df |-> o.df]
    /\ pc' = "called"
    /\ UNCHANGED <<raw, df, err, steps, tabs, session_state, returned>>

\* The call returns: the caller renders the bundle and drops it.
Return ==
    /\ pc = "called"
    /\ pc' = "ready"
    /\ result' = NoResult
    /\ UNCHANGED <<raw, df, err, steps, tabs, session_state, returned>>

\* A call of a function wrapped by CacheManager.cache_data
CacheCall ==
    /\ \E func \in wrapped_functions, args \in call_args, outcome \in function_outcomes :
         LET w == wrapper(session_state, func, args, outcome)
         IN  /\ session_state' = w.state
             /\ returned' = w.returned
    /\ UNCHANGED <<raw, pc, df, err, steps, result, tabs>>

\* CacheManager.clear_cache()
ClearCache ==
    /\ session_state' = clear_cache(session_state)
    /\ returned' = [op |-> "clear_cache"]
    /\ UNCHANGED <<raw, pc, df, err, steps, result, tabs>>

Next ==
    \/ Normalize
    \/ TimeSeriesMetrics
    \/ CustomerMetrics
    \/ GrowthRates
    \/ Trends
    \/ Validate
    \/ ProductMetrics
    \/ MainFilters
    \/ ShowTab
    \/ Renormalize
    \/ Seasonality
    \/ Aggregate
    \/ Return

Spec == Init /\ [][Next]_vars

\* The memoization layer on its own: a session in which wrapped functions
\* are called and the cache is cleared, in any order.
CacheInit == Init /\ raw = create_sample_data
CacheNext == CacheCall \/ ClearCache
CacheSpec == CacheInit /\ [][CacheNext]_vars

(***************************************************************************)
(* Properties                                                              *)
(***************************************************************************)
Abs(x) == IF x < 0 THEN 0 - x ELSE x

Built == pc \in {"ready", "called", "main", "aborted", "done"}
Finished == pc \in {"ready", "called", "failed", "main", "aborted", "done"}

IsBlank(c) == c.tag = "str" /\ c.s \in {"", " ", "  "}
IsMissing(c) == c.tag \in {"NA", "text"}

\* A raw row that has a date, a non-negative numeric amount and non-blank
\* identifiers.
WellFormed(r) ==
    /\ r.date.tag = "ts"
    /\ r.amount.tag = "num" /\ r.amount.n >= 0
    /\ ~IsMissing(r.product) /\ ~IsBlank(r.product)
    /\ ~IsMissing(r.customer) /\ ~IsBlank(r.customer)

\* C1: whenever the constructor succeeds, no canonical record has a missing
\* date, a missing or negative amount, or a missing or blank product or
\* customer identifier.
C1_CanonicalRecordsValid ==
    Built =>
        \A i \in DOMAIN df :
            /\ df[i].date.tag = "ts"
            /\ df[i].amount.tag = "num"
            /\ df[i].amount.n >= 0
            /\ ~IsMissing(df[i].product) /\ ~IsBlank(df[i].product)
            /\ ~IsMissing(df[i].customer) /\ ~IsBlank(df[i].customer)

\* The constructor succeeded on a table with a negative amount.
C1_Witness ==
    /\ Built
    /\ Len(df) >= 1
    /\ \E i \in DOMAIN raw.rows :
         raw.rows[i].amount.tag = "num" /\ raw.rows[i].amount.n < 0

C3_SchemaErrorFirst ==
    (Finished /\ ~(required_columns \subseteq raw.cols))
    => ( /\ pc = "failed"
         /\ err = "SchemaError"
         /\ df = <<>>
         /\ Range(steps) \cap {"to_datetime", "to_numeric", "filter", "sort"} = {} )

\* A table with a row but without the amount column was rejected.
C3_Witness ==
    /\ pc = "failed"
    /\ err = "SchemaError"
    /\ "amount" \notin raw.cols
    /\ Len(raw.rows) = 1

DailyTotal == SumSeq([i \in DOMAIN result.daily |-> result.daily[i].sum])
RecordTotal == SumSeq(amounts_of(df))

\* C4 as claimed: the daily total column sums to the sum of all record
\* amounts within 0.01.
C4_DailySumWithinCent ==
    result.op = "time_series" => Abs(DailyTotal - RecordTotal) <= 10

\* C4 as amended: the daily total column sums to the sum of all record
\* amounts within 0.005 per distinct record date (each daily total is rounded
\* to two decimals), and exactly when no amount has more than two decimals.
C4_DailySumWithinRounding ==
    result.op = "time_series" =>
        /\ Abs(DailyTotal - RecordTotal) <= 5 * Cardinality(dates_of(df))
        /\ (\A i \in DOMAIN df : df[i].amount.n % 10 = 0) => DailyTotal = RecordTotal

\* Daily totals over three dates whose rounding moved the sum.
C4_Witness ==
    /\ result.op = "time_series"
    /\ Cardinality(dates_of(df)) >= 3
    /\ DailyTotal # RecordTotal

Labels == {"VIP", "Preferred", "Regular", "NeedsFollowUp"}

\* C5: every customer's R, F and M scores are integers in 1..4 and the
\* segment is one of the four labels.
C5_ScoresAndSegmentsInRange ==
    result.op = "customer_metrics" =>
        \A c \in DOMAIN result.rfm :
            /\ result.rfm[c].R \in 1..4
            /\ result.rfm[c].F \in 1..4
            /\ result.rfm[c].M \in 1..4
            /\ result.rfm[c].segment \in Labels

\* An RFM table with three customers that holds a quartile score and a
\* filled-in score.
C5_Witness ==
    /\ result.op = "customer_metrics"
    /\ Cardinality(DOMAIN result.rfm) = 3
    /\ \E c \in DOMAIN result.rfm : result.rfm[c].R = 4
    /\ \E c \in DOMAIN result.rfm : result.rfm[c].F = 1 /\ result.rfm[c].M = 1

Distinct(measure) == Cardinality({result.rfm[c][measure] : c \in DOMAIN result.rfm})

\* C6: a measure with fewer than 2 distinct values across the customers
\* gives every customer the score 2 for that measure.
C6_DegenerateScoreIsTwo ==
    result.op = "customer_metrics" =>
        /\ Distinct("Recency") < 2 => \A c \in DOMAIN result.rfm : result.rfm[c].R = 2
        /\ Distinct("Frequency") < 2 => \A c \in DOMAIN result.rfm : result.rfm[c].F = 2
        /\ Distinct("Monetary") < 2 => \A c \in DOMAIN result.rfm : result.rfm[c].M = 2

\* C7: the segment follows from the final scores, first match winning.
C7_SegmentByPriority ==
    result.op = "customer_metrics" =>
        \A c \in DOMAIN result.rfm :
            LET p == result.rfm[c]
                vip  == p.R >= 3 /\ p.F >= 3 /\ p.M >= 3
                pref == p.R >= 3 /\ p.F >= 3
                reg  == p.R >= 2 /\ p.F >= 2
            IN  /\ p.segment = "VIP" <=> vip
                /\ p.segment = "Preferred" <=> (~vip /\ pref)
                /\ p.segment = "Regular" <=> (~vip /\ ~pref /\ reg)
                /\ p.segment = "NeedsFollowUp" <=> (~vip /\ ~pref /\ ~reg)

\* One RFM table with a Regular, a Preferred and a NeedsFollowUp customer.
C7_Witness ==
    /\ result.op = "customer_metrics"
    /\ \E c \in DOMAIN result.rfm : result.rfm[c].segment = "Regular"
    /\ \E c \in DOMAIN result.rfm : result.rfm[c].segment = "Preferred"
    /\ \E c \in DOMAIN result.rfm : result.rfm[c].segment = "NeedsFollowUp"

\* C8: a smaller recency never scores lower; a smaller frequency or monetary
\* value never scores higher.
C8_ScoreDirection ==
    result.op = "customer_metrics" =>
        \A a, b \in DOMAIN result.rfm :
            LET x == result.rfm[a]
                y == result.rfm[b]
            IN  /\ x.Recency < y.Recency => x.R >= y.R
                /\ x.Frequency < y.Frequency => x.F <= y.F
                /\ x.Monetary < y.Monetary => x.M <= y.M

\* Two customers, the more recent one scoring strictly higher on R and
\* strictly lower on M.
C8_Witness ==
    /\ result.op = "customer_metrics"
    /\ \E a, b \in DOMAIN result.rfm :
         /\ result.rfm[a].Recency < result.rfm[b].Recency
         /\ result.rfm[a].R > result.rfm[b].R
         /\ result.rfm[a].Monetary < result.rfm[b].Monetary
         /\ result.rfm[a].M < result.rfm[b].M

GrowthOk == result.op = "growth_rates" /\ result.error = NoError

\* C9: the first period row of the growth-rate table is 0 in every group
\* column.
C9_FirstPeriodIsZero ==
    (GrowthOk /\ Len(result.table) >= 1) =>
        \A g \in DOMAIN result.table[1].rate : result.table[1].rate[g] = Num(0)

\* A growth-rate table with two periods and two groups.
C9_Witness ==
    /\ GrowthOk
    /\ Len(result.table) >= 2
    /\ Cardinality(DOMAIN result.table[1].rate) >= 2

\* The summed amount of group g in the period labelled lbl.
PeriodTotal(lbl, g) ==
    LET Sel(r) ==
            /\ period_label(result.period, bin_of(freq_map[result.period], r.date.n)) = lbl
            /\ r[result.group_by] = g
    IN  SumSeq(amounts_of(SelectSeq(df, Sel)))

\* C10: no cell of the growth-rate table is NaN, and a group whose period
\* total is 0 in two consecutive periods has growth exactly 0.
C10_NoNaN ==
    GrowthOk =>
        \A i \in DOMAIN result.table : \A g \in DOMAIN result.table[i].rate :
            /\ result.table[i].rate[g] # NaN
            /\ ( /\ i >= 2
                 /\ PeriodTotal(result.table[i - 1].label, g) = 0
                 /\ PeriodTotal(result.table[i].label, g) = 0 )
               => result.table[i].rate[g] = Num(0)

\* A group absent from two consecutive periods of the table, next to a
\* group that grew from 0.
C10_Witness ==
    /\ GrowthOk
    /\ \E i \in DOMAIN result.table : \E g, h \in DOMAIN result.table[i].rate :
         /\ i >= 2
         /\ PeriodTotal(result.table[i - 1].label, g) = 0
         /\ PeriodTotal(result.table[i].label, g) = 0
         /\ result.table[i].rate[h] = Inf

TableNames == {"daily", "weekly", "monthly"}

\* The label of the bucket of table `name` that day d falls in.
LabelOf(name, d) ==
    IF name = "monthly" THEN strftime_ym(bin_of("ME", d))
    ELSE strftime_ymd(bin_of(freq_map[name], d))

\* The amounts of the canonical records in the bucket labelled lbl.
BucketAmounts(name, lbl) ==
    LET Sel(r) == LabelOf(name, r.date.n) = lbl
    IN  amounts_of(SelectSeq(df, Sel))

BucketTotal(name, lbl) == SumSeq(BucketAmounts(name, lbl))

\* C11: in the daily, weekly and monthly tables the percent change of the
\* first period is 0, and every later value is the change from the total of
\* the preceding row to the total of its own row.
C11_FirstChangeIsZero ==
    result.op = "time_series" =>
        \A name \in TableNames :
            LET t == result[name]
            IN  \A i \in DOMAIN t :
                    IF i = 1 THEN t[i].pct = Num(0)
                    ELSE t[i].pct = pct_change(BucketTotal(name, t[i - 1].label),
                                               BucketTotal(name, t[i].label))

\* Floor and remainder of |c - p| * 100000 / p: the change from p to c in
\* thousandths of a percent (p > 0).
ExactChange(p, c) == DivDigits(Abs(c - p) \div p, Abs(c - p) % p, p, 5)

\* C12 as claimed: each daily total equals the sum of the amounts of that
\* day's records, and after a total p > 0 the percent change to the total c
\* is exactly (c - p) / p * 100.
C12_DailyTotalsExact ==
    result.op = "time_series" =>
        \A i \in DOMAIN result.daily :
            LET t == result.daily
                c == BucketTotal("daily", t[i].label)
                p == BucketTotal("daily", t[i - 1].label)
            IN  /\ t[i].sum = c
                /\ (i >= 2 /\ p > 0) =>
                       /\ t[i].pct.tag = "num"
                       /\ Abs(t[i].pct.n) = ExactChange(p, c).q
                       /\ ExactChange(p, c).r = 0
                       /\ (t[i].pct.n < 0 => c < p)

\* C12 as amended: each daily total is the sum of that day's amounts rounded
\* to two decimals, and after a total p > 0 the percent change is
\* (c - p) / p * 100 of the unrounded totals, rounded to two decimals; totals
\* 1000 and 3000 on adjacent days give 1000, 3000 and a growth of 200.
C12_DailyTotalsRounded ==
    result.op = "time_series" =>
        \A i \in DOMAIN result.daily :
            LET t == result.daily
                c == BucketTotal("daily", t[i].label)
                p == BucketTotal("daily", t[i - 1].label)
                z == ExactChange(p, c)
                m == Abs(t[i].pct.n)
            IN  /\ t[i].sum % 10 = 0
                /\ Abs(t[i].sum - c) <= 5
                /\ c % 10 = 0 => t[i].sum = c
                /\ (i >= 2 /\ p > 0) =>
                       /\ t[i].pct.tag = "num"
                       /\ m % 10 = 0
                       /\ z.q >= m - 5
                       /\ z.q < m + 5 \/ (z.q = m + 5 /\ z.r = 0)
                       /\ (t[i].pct.n < 0 => c < p)
                       /\ (t[i].pct.n > 0 => c > p)
                /\ (i >= 2 /\ p = 1000000 /\ c = 3000000) =>
                       /\ t[i - 1].sum = 1000000
                       /\ t[i].sum = 3000000
                       /\ t[i].pct = Num(200000)

\* A daily table with totals 1000 and 3000 on adjacent days, a total with a
\* third decimal, and a change that is not a whole hundredth of a percent.
C12_Witness ==
    /\ result.op = "time_series"
    /\ \E i \in DOMAIN result.daily :
         /\ i >= 2
         /\ result.daily[i - 1].sum = 1000000
         /\ result.daily[i].sum = 3000000
         /\ result.daily[i].pct = Num(200000)
    /\ \E i \in DOMAIN result.daily :
         BucketTotal("daily", result.daily[i].label) % 10 # 0
    /\ \E i \in DOMAIN result.daily :
         /\ i >= 2
         /\ BucketTotal("daily", result.daily[i - 1].label) > 0
         /\ ExactChange(BucketTotal("daily", result.daily[i - 1].label),
                        BucketTotal("daily", result.daily[i].label)).r # 0

\* The sum of the amounts of the canonical records in the bin b of the
\* trend table of the given period.
TrendTotal(period, b) ==
    LET Sel(r) == bin_of(trend_freq(period), r.date.n) = b
    IN  SumSeq(amounts_of(SelectSeq(df, Sel)))

\* The sum of the period totals of the rows lo..i of the trend table.
WindowTotal(lo, i) ==
    SumSeq([j \in 1..(i - lo + 1) |->
              TrendTotal(result.period, result.table[lo + j - 1].bin)])

WindowStart(i, w) == IF i > w THEN i - w + 1 ELSE 1

\* C13 as claimed: every row of the trend table has a 7-period and a
\* 30-period moving average, equal to the mean of the period sums over the
\* last min(i + 1, w) periods (i counted from 0).
C13_MovingAverageExact ==
    result.op = "trends" =>
        \A i \in DOMAIN result.table :
            /\ result.table[i].ma7.tag = "num"
            /\ result.table[i].ma30.tag = "num"
            /\ result.table[i].ma7.n * (i - WindowStart(i, 7) + 1)
                   = WindowTotal(WindowStart(i, 7), i)
            /\ result.table[i].ma30.n * (i - WindowStart(i, 30) + 1)
                   = WindowTotal(WindowStart(i, 30), i)

\* C13 as amended: every row of the trend table has a 7-period and a
\* 30-period moving average, equal to the mean of the period sums over the
\* last min(i + 1, w) periods rounded to a whole number.
C13_MovingAverageRounded ==
    result.op = "trends" =>
        \A i \in DOMAIN result.table :
            LET k7  == i - WindowStart(i, 7) + 1
                k30 == i - WindowStart(i, 30) + 1
                a7  == result.table[i].ma7
                a30 == result.table[i].ma30
            IN  /\ a7.tag = "num" /\ a7.n % 1000 = 0
                /\ a30.tag = "num" /\ a30.n % 1000 = 0
                /\ Abs(a7.n * k7 - WindowTotal(WindowStart(i, 7), i)) <= 500 * k7
                /\ Abs(a30.n * k30 - WindowTotal(WindowStart(i, 30), i)) <= 500 * k30

\* A daily trend table of more than thirty rows whose last row has a
\* 30-period average over a full window that differs from its 7-period
\* average and is not the exact mean.
C13_Witness ==
    /\ result.op = "trends"
    /\ result.period = "daily"
    /\ Len(result.table) > 30
    /\ LET i == Len(result.table)
       IN  /\ result.table[i].ma30 # result.table[i].ma7
           /\ result.table[i].ma30.n * 30 # WindowTotal(i - 29, i)
           /\ result.table[2].ma7.n > 0

\* C14: validate always returns a report; when a step inside it fails the
\* report has exactly one entry, whose value is false, and holds none of the
\* check results stored before the failure; otherwise it holds the checks.
C14_ValidateNeverRaises ==
    result.op = "validate" =>
        /\ result.input = <<>> => result.failed_at # 0
        /\ result.failed_at # 0 =>
               /\ Cardinality(DOMAIN result.report) = 1
               /\ \A n \in DOMAIN result.report : result.report[n] = FALSE
               /\ DOMAIN result.report \cap Range(check_names) = {}
        /\ result.failed_at = 0 =>
               /\ DOMAIN result.report = Range(check_names)
               /\ result.input = df

\* validate failed at its second step, after the first check was stored,
\* and returned the error report.
C14_Witness ==
    /\ result.op = "validate"
    /\ result.input = <<>>
    /\ result.failed_at = 2
    /\ DOMAIN result.report = {"error"}

\* C15: when a run of main() has ended and the computation of one tab
\* failed in it, every other tab of that run, the validation tab included,
\* was computed and shown.
C15_SiblingTabsIsolated ==
    (pc \in {"aborted", "done"} /\ \E i \in DOMAIN tabs : ~tabs[i].ok) =>
        \A k \in DOMAIN tab_names :
            \/ \E i \in DOMAIN tabs : tabs[i] = [tab |-> tab_names[k], ok |-> FALSE]
            \/ \E i \in DOMAIN tabs : tabs[i] = [tab |-> tab_names[k], ok |-> TRUE]

\* C16: normalizing the canonical record set again succeeds and yields the
\* same records in the same order.
C16_NormalizeIdempotent ==
    result.op = "normalize" => (result.ok /\ result.df = df)

\* C17: the canonical record set is sorted by date ascending: of two
\* consecutive records the first one's date is not later than the second's.
C17_SortedByDate ==
    Built => \A i \in 1..(Len(df) - 1) : df[i].date.n <= df[i + 1].date.n

\* The constructor succeeded on a table in which a valid record comes before
\* a valid record of an earlier date.
C17_Witness ==
    /\ Built
    /\ \E i, j \in DOMAIN raw.rows :
         /\ i < j
         /\ WellFormed(raw.rows[i]) /\ WellFormed(raw.rows[j])
         /\ raw.rows[i].date.n > raw.rows[j].date.n

AnalysisOps ==
    {"time_series", "product_metrics", "customer_metrics", "growth_rates",
     "trends", "seasonality", "validate"}

\* C18: no step changes the caller's raw table, whether the constructor
\* succeeds or fails, and once the processor is built no operation changes
\* its canonical record set, which is also the record set passed to it.
C18_InputsUnchanged ==
    [][raw' = raw /\ (pc # "start" => df' = df)]_vars

\* An analysis operation has run on a canonical record set that differs from
\* the rows of the raw table.
C18_Witness ==
    /\ pc = "called"
    /\ result.op \in AnalysisOps
    /\ Len(df) >= 1
    /\ df # raw.rows

\* C19: each table of the time-series metrics has exactly one row for every
\* day, week or month bucket from the bucket of the earliest record to the
\* bucket of the latest record, and a row whose bucket holds no record has
\* sum 0 and count 0.
C19_ContiguousPeriodAxis ==
    result.op = "time_series" =>
        \A name \in TableNames :
            LET t  == result[name]
                lo == Min(dates_of(df))
                hi == Max(dates_of(df))
            IN  /\ {t[i].label : i \in DOMAIN t} = {LabelOf(name, d) : d \in lo..hi}
                /\ \A i, j \in DOMAIN t : t[i].label = t[j].label => i = j
                /\ t[1].label = LabelOf(name, lo)
                /\ t[Len(t)].label = LabelOf(name, hi)
                /\ \A i \in DOMAIN t :
                       /\ t[i].count = Len(BucketAmounts(name, t[i].label))
                       /\ t[i].count = 0 => t[i].sum = 0

\* Time-series tables with a day, a week and a month that hold no record
\* between buckets that do.
C19_Witness ==
    /\ result.op = "time_series"
    /\ \A name \in TableNames :
         \E i \in DOMAIN result[name] :
             /\ 1 < i /\ i < Len(result[name])
             /\ result[name][i].count = 0
             /\ result[name][i].sum = 0
             /\ result[name][1].count > 0
             /\ result[name][Len(result[name])].count > 0

\* How often the record r occurs in the sequence sq.
Occurrences(sq, r) == Cardinality({i \in DOMAIN sq : sq[i] = r})

\* The canonical record set holds exactly the valid raw records, each as
\* often as the raw table does.
KeepsExactlyValid ==
    LET valid == SelectSeq(raw.rows, WellFormed)
    IN  /\ Len(df) = Len(raw.rows) - Cardinality({i \in DOMAIN raw.rows : ~WellFormed(raw.rows[i])})
        /\ \A r \in Range(valid) \cup Range(df) : Occurrences(df, r) = Occurrences(valid, r)

\* C20: for a raw table with the required columns and at least one valid
\* record (a date, a numeric amount >= 0, non-blank product and customer),
\* normalize yields a canonical record set that holds exactly the valid raw
\* records with their multiplicity and field values; a record with amount -5
\* is dropped and a record with amount 0 is kept.
C20_KeepsExactlyValidRecords ==
    ( /\ Finished
      /\ required_columns \subseteq raw.cols
      /\ \E i \in DOMAIN raw.rows : WellFormed(raw.rows[i]) )
    => (Built /\ KeepsExactlyValid)

\* C21: every record set that load_data hands to the constructor in main()
\* carries the four required columns: the constructor does not fail with
\* the missing-columns error, and the processor is built.
C21_IngestedTablesHaveRequiredColumns ==
    (raw \in IngestedTables /\ Finished) =>
        /\ required_columns \subseteq raw.cols
        /\ err # "SchemaError"

\* A call of growthRates or customer metrics, and whether something inside
\* it had to fail: the frame has no date column, or the period of a
\* growth-rate call is not one of daily, weekly, monthly.
WrappedOp == result.op \in {"growth_rates", "customer_metrics"}
MustFail ==
    \/ "date" \notin result.cols
    \/ result.op = "growth_rates" /\ result.period \notin {"daily", "weekly", "monthly"}

\* C22: a failure inside growthRates or customer metrics reaches the caller
\* as the ComputationError of the operation with the cause in its message,
\* never as another error kind, and without any partial result.
C22_FailuresAreComputationErrors ==
    WrappedOp =>
        /\ result.error \in {NoError, "ComputationError"}
        /\ MustFail => result.error = "ComputationError"
        /\ result.error = "ComputationError" =>
               /\ result.cause # ""
               /\ "date" \notin result.cols => result.cause = "ValueError: date column not found"
               /\ result.op = "growth_rates" => result.table = <<>>
               /\ result.op = "customer_metrics" =>
                      (result.rfm = <<>> /\ result.time_series = <<>>)
        /\ result.error = NoError =>
               /\ ~MustFail
               /\ result.op = "growth_rates" => result.table # <<>>
               /\ result.op = "customer_metrics" => DOMAIN result.rfm # {}

\* A growth-rate call that failed on its period although the frame has a
\* date column, on a canonical set of at least two records.
C22_Witness ==
    /\ result.op = "growth_rates"
    /\ "date" \in result.cols
    /\ result.error = "ComputationError"
    /\ result.cause = "KeyError: period"
    /\ Len(df) >= 2

\* The calendar bucket of a day as the claim has it: the Monday-to-Sunday
\* week (day 1 is a Monday), or the calendar month.
CalendarBucket(period, d) ==
    IF period = "weekly" THEN (d - 1) \div 7 ELSE month_index(d)

RecordsOf(rows, period, group_by, d, k) ==
    { i \in DOMAIN rows : /\ CalendarBucket(period, rows[i].date.n) = CalendarBucket(period, d)
                          /\ group_key(rows[i], group_by) = k }

\* An aggregate result groups the records by calendar bucket and key: there
\* are as many groups as (calendar bucket, key) pairs, each group counts the
\* records of one pair, and a monthly group is labelled by the last day of
\* the month.
AggregateFollowsCalendar(periods) ==
    (result.op = "aggregate" /\ result.error = NoError /\ result.period \in periods) =>
        /\ Cardinality(result.groups) =
              Cardinality({ <<CalendarBucket(result.period, df[i].date.n),
                              group_key(df[i], result.group_by)>> : i \in DOMAIN df })
        /\ \A g \in result.groups :
              \E i \in DOMAIN df :
                 /\ group_key(df[i], result.group_by) = g.key
                 /\ g.count = Cardinality(RecordsOf(df, result.period, result.group_by,
                                                    df[i].date.n, g.key))
                 /\ result.period = "monthly" =>
                       g.label = strftime_ymd(month_ends[month_index(df[i].date.n)])

\* A growth-rate table has one row per calendar bucket with a record.
GrowthFollowsCalendar(periods) ==
    (result.op = "growth_rates" /\ result.error = NoError /\ result.period \in periods) =>
        Len(result.table) =
            Cardinality({ CalendarBucket(result.period, df[i].date.n) : i \in DOMAIN df })

\* C23: with the week bucket, aggregate and growthRates put two records in
\* the same bucket exactly when their dates lie in the same Monday-to-Sunday
\* week; with the month bucket, exactly when they lie in the same calendar
\* month, the bucket being labelled by the last day of the month.
C23_BucketsFollowCalendar ==
    /\ AggregateFollowsCalendar({"weekly", "monthly"})
    /\ GrowthFollowsCalendar({"weekly", "monthly"})

\* Quartile binning of a measure of the RFM table fails although the measure
\* has at least 2 distinct values.
BinningFails(measure) ==
    /\ Distinct(measure) >= 2
    /\ qcut_raises([c \in DOMAIN result.rfm |-> result.rfm[c][measure]])

\* C24: when quartile binning of a measure with at least 2 distinct values
\* fails, every customer's final score for that measure is the neutral 2.
C24_FallbackScoreIsTwo ==
    (result.op = "customer_metrics" /\ result.error = NoError) =>
        /\ BinningFails("Recency") => \A c \in DOMAIN result.rfm : result.rfm[c].R = 2
        /\ BinningFails("Frequency") => \A c \in DOMAIN result.rfm : result.rfm[c].F = 2
        /\ BinningFails("Monetary") => \A c \in DOMAIN result.rfm : result.rfm[c].M = 2

\* The sum of the amounts of the records of df with a date and an entity.
CellTotal(d, column, entity) ==
    LET Sel(r) == r.date.n = d /\ r[column] = entity
    IN  SumSeq(amounts_of(SelectSeq(df, Sel)))

\* C25: the time-series pivot of the product and of the customer metrics has
\* a cell for every observed date and observed entity; the cell is the sum
\* of the amounts of the records with that date and entity, 0 without one.
C25_PivotCellsAreSums ==
    /\ result.op = "product_metrics" =>
          /\ DOMAIN result.time_series = {Ts(d) : d \in dates_of(df)}
          /\ \A d \in dates_of(df) :
                /\ DOMAIN result.time_series[Ts(d)] = products_of(df)
                /\ \A g \in products_of(df) :
                      result.time_series[Ts(d)][g] = Num(CellTotal(d, "product", g))
    /\ (result.op = "customer_metrics" /\ result.error = NoError) =>
          /\ DOMAIN result.time_series = {strftime_ymd(d) : d \in dates_of(df)}
          /\ \A d \in dates_of(df) :
                /\ DOMAIN result.time_series[strftime_ymd(d)] = customers_of(df)
                /\ \A c \in customers_of(df) :
                      result.time_series[strftime_ymd(d)][c] = Num(CellTotal(d, "customer", c))

\* A customer pivot over at least three dates and two customers with a cell
\* that has no record, filled with 0, and a cell with a positive sum.
C25_Witness ==
    /\ result.op = "customer_metrics"
    /\ result.error = NoError
    /\ Cardinality(dates_of(df)) >= 3
    /\ Cardinality(customers_of(df)) >= 2
    /\ \E d \in dates_of(df), c \in customers_of(df) :
          /\ \A i \in DOMAIN df : ~(df[i].date.n = d /\ df[i].customer = c)
          /\ result.time_series[strftime_ymd(d)][c] = Num(0)
    /\ \E d \in dates_of(df), c \in customers_of(df) :
          result.time_series[strftime_ymd(d)][c].n > 0

\* C26: the InvalidDateRangeError outcome of the constructor is unreachable:
\* whenever the date-range check runs, the latest date is not earlier than
\* the earliest, and the constructor never ends in that failure.
C26_DateRangeErrorUnreachable ==
    /\ err # "InvalidDateRangeError"
    /\ (Built /\ df # <<>>) => Max(dates_of(df)) >= Min(dates_of(df))

\* The constructor went through the date-range check on a raw table whose
\* rows are not in date order.
C26_Witness ==
    /\ Built
    /\ "validate_data" \in Range(steps)
    /\ Len(raw.rows) >= 2
    /\ raw.rows[1].date.tag = "ts" /\ raw.rows[2].date.tag = "ts"
    /\ raw.rows[1].date.n > raw.rows[2].date.n
    /\ Cardinality(dates_of(df)) >= 2

\* The sum of one measure over the profiles of an RFM table.
RECURSIVE MeasureTotal(_, _, _)
MeasureTotal(rfm, measure, S) ==
    IF S = {} THEN 0
    ELSE LET c == CHOOSE x \in S : TRUE
         IN  rfm[c][measure] + MeasureTotal(rfm, measure, S \ {c})

\* C27: an RFM result has exactly one profile per distinct customer, every
\* recency is >= 0, some customer has recency 0, the frequencies sum to the
\* number of records and the monetary values to the total amount.
C27_RfmProfilesAccountForRecords ==
    (result.op = "customer_metrics" /\ result.error = NoError) =>
        /\ DOMAIN result.rfm = customers_of(df)
        /\ \A c \in DOMAIN result.rfm : result.rfm[c].Recency >= 0
        /\ \E c \in DOMAIN result.rfm : result.rfm[c].Recency = 0
        /\ MeasureTotal(result.rfm, "Frequency", DOMAIN result.rfm) = Len(df)
        /\ MeasureTotal(result.rfm, "Monetary", DOMAIN result.rfm) = SumSeq(amounts_of(df))

\* An RFM table of three customers, one of them with several records, one
\* with a positive recency, the last date being that of a repeat customer.
C27_Witness ==
    /\ result.op = "customer_metrics"
    /\ result.error = NoError
    /\ Cardinality(DOMAIN result.rfm) = 3
    /\ Len(df) > 3
    /\ \E c \in DOMAIN result.rfm :
          result.rfm[c].Recency = 0 /\ result.rfm[c].Frequency >= 2
    /\ \E c \in DOMAIN result.rfm : result.rfm[c].Recency > 0

\* The sum of one column over the groups of an aggregate result.
RECURSIVE ColumnTotal(_, _)
ColumnTotal(groups, column) ==
    IF groups = {} THEN 0
    ELSE LET g == CHOOSE x \in groups : TRUE
         IN  g[column] + ColumnTotal(groups \ {g}, column)

\* The records of df that an output group of an aggregate result stands for:
\* those with its key whose bin carries its label.
MembersOf(g) ==
    { i \in DOMAIN df :
        /\ group_key(df[i], result.group_by) = g.key
        /\ g.label = IF result.period = "none" THEN <<>>
                     ELSE strftime_ymd(aggregate_bin(result.period, df[i].date.n)) }

\* Every record is in exactly one output group, the counts sum to the number
\* of records, and every group has at least one record.
AggregateCounts ==
    /\ \A i \in DOMAIN df : Cardinality({g \in result.groups : i \in MembersOf(g)}) = 1
    /\ \A g \in result.groups : g.count = Cardinality(MembersOf(g)) /\ g.count >= 1
    /\ ColumnTotal(result.groups, "count") = Len(df)

AggregateOk == result.op = "aggregate" /\ result.error = NoError

\* C28 as claimed: aggregate is conservative, with or without period
\* bucketing: the group counts sum to the number of records, the group sums
\* sum to the total amount, and every group has at least one record.
C28_AggregateConservative ==
    AggregateOk =>
        /\ AggregateCounts
        /\ ColumnTotal(result.groups, "sum") = SumSeq(amounts_of(df))

\* C28 as amended: the counts are conservative; the group sums, each rounded
\* to two decimals, sum to the total amount within 0.005 per group, and
\* exactly when no amount has more than two decimals.
C28_AggregateConservativeWithinRounding ==
    AggregateOk =>
        /\ AggregateCounts
        /\ Abs(ColumnTotal(result.groups, "sum") - SumSeq(amounts_of(df)))
              <= 5 * Cardinality(result.groups)
        /\ (\A i \in DOMAIN df : df[i].amount.n % 10 = 0) =>
              ColumnTotal(result.groups, "sum") = SumSeq(amounts_of(df))

\* A weekly aggregate with several groups, one of them holding more than one
\* record, whose rounded sums differ from the total amount.
C28_Witness ==
    /\ AggregateOk
    /\ result.period = "weekly"
    /\ Cardinality(result.groups) >= 2
    /\ \E g \in result.groups : g.count >= 2
    /\ ColumnTotal(result.groups, "sum") # SumSeq(amounts_of(df))

\* C29: when validate runs to its end on a canonical record set, the report
\* has exactly the eight named checks, and the total-sum, per-product,
\* per-customer and date-continuity checks are all true.
C29_ConsistencyChecksHold ==
    (result.op = "validate" /\ result.input = df /\ result.failed_at = 0) =>
        /\ DOMAIN result.report = Range(check_names)
        /\ Cardinality(DOMAIN result.report) = 8
        /\ result.report["sales_total"]
        /\ result.report["product_totals"]
        /\ result.report["customer_totals"]
        /\ result.report["date_continuity"]

\* A full report on a record set with a customer buying on several days,
\* several customers and an amount with more than two decimals.
C29_Witness ==
    /\ result.op = "validate"
    /\ result.input = df
    /\ result.failed_at = 0
    /\ Cardinality(DOMAIN result.report) = 8
    /\ Cardinality(customers_of(df)) >= 2
    /\ \E c \in customers_of(df) : Cardinality(dates_of(rows_of_customer(df, c))) >= 2
    /\ \E i \in DOMAIN df : df[i].amount.n % 10 # 0

\* The (function name, arguments) key of the call reported in r is stored in
\* the session state s.
KeyStored(s, r) ==
    \E k \in DOMAIN s :
        /\ startswith_cache(k)
        /\ k[2] = r.func.name
        /\ ~json_dumps_raises(r.args)
        /\ k[3] = hash_params(r.args)

\* What a call step must do: with its key stored, the stored result is
\* returned and the function is not invoked; with its key not stored, the
\* function is invoked exactly once and, when it returns, its result is
\* returned and stored under the key.
CallAsClaimed(args) ==
    (returned'.op = "call" /\ returned'.args \in args) =>
        IF KeyStored(session_state, returned')
        THEN /\ returned'.invoked = 0
             /\ returned'.outcome = "value"
             /\ returned'.value = session_state[cache_key(returned'.func, returned'.args)]
             /\ session_state' = session_state
        ELSE /\ returned'.invoked = 1
             /\ returned'.outcome = "value" =>
                   /\ KeyStored(session_state', returned')
                   /\ session_state'[cache_key(returned'.func, returned'.args)]
                         = returned'.value

\* After clear_cache no key with the prefix cache_ remains.
ClearAsClaimed ==
    returned'.op = "clear_cache" =>
        \A k \in DOMAIN session_state' : ~startswith_cache(k)

\* C30: over any sequence of calls of a wrapped function and clear_cache
\* operations, a call whose key is stored returns the stored result without
\* invoking the function, a call whose key is not stored invokes the function
\* exactly once and stores its result, and after clear_cache no key with the
\* prefix cache_ remains, so that the next call recomputes.
C30_MemoizationContract ==
    [][CallAsClaimed(call_args) /\ ClearAsClaimed]_vars

\* The same for the calls whose argument json can serialise.
C30_SerialisableCalls ==
    [][CallAsClaimed(call_args \ {"DataFrame"}) /\ ClearAsClaimed]_vars
====
